---- MODULE Spec2Model ----
(***************************************************************************)
(* A model of tram/models.py: the taxonomy registry, the evidence store    *)
(* (Document, DocumentProcessingJob, Report, Indicator, Sentence), the     *)
(* four mapping tables, the acceptance aggregation queries and the         *)
(* post_delete hook that removes a Document's backing file.                *)
(*                                                                         *)
(* A table is a function from the primary keys of its live rows to the     *)
(* rows; lastpk holds each table's auto-increment counter, so a primary    *)
(* key is never reused.  A nullable foreign key that is NULL is Null.      *)
(***************************************************************************)
EXTENDS Integers, Sequences, FiniteSets

VARIABLES techniques, groups, documents, jobs, reports, indicators, sentences,
          stm, sgm, rtm, rgm, lastpk, files, config, ret, hooklog

vars == <<techniques, groups, documents, jobs, reports, indicators, sentences,
          stm, sgm, rtm, rgm, lastpk, files, config, ret, hooklog>>

store == <<documents, jobs, reports, indicators, sentences, stm, sgm, rtm, rgm, lastpk>>

(* ------------------------------ bounds -------------------------------- *)
NumSentences == 2
MaxMappings == 2
MaxThreshold == 1
MaxPromoted == 1
MaxGroupMappings == 1
MaxDocuments == 2
MaxRows == 3

(* ----------------------------- constants ------------------------------ *)
Null == 0
NoDisposition == "none"
DISPOSITION_CHOICES == {"accept", "reject", NoDisposition}
JOB_STATUS_CHOICES == {"queued", "error"}
NoFile == ""
Paths == {"a.pdf", "b.pdf"}
Empty == << >>

\* attack_id strings as sequences of character codes: "T2", "T10", "T9", "G1"
AttackIdT2 == <<84, 50>>
AttackIdT10 == <<84, 49, 48>>
AttackIdT9 == <<84, 57>>
AttackIdG1 == <<71, 49>>
AttackIds == {AttackIdT2, AttackIdT10, AttackIdT9}
ScorerConfidences == {50}
ReviewConfidences == {25, 75}

Thresholds == 0..MaxThreshold

Min(a, b) == IF a <= b THEN a ELSE b

\* s < t in the lexicographic order of character strings
LexLess(s, t) ==
    \E i \in 1..(Min(Len(s), Len(t)) + 1) :
        /\ \A j \in 1..(i - 1) : s[j] = t[j]
        /\ \/ i > Len(s) /\ i <= Len(t)
           \/ i <= Len(s) /\ i <= Len(t) /\ s[i] < t[i]

\* a table with one more row under a fresh primary key
Insert(table, pk, row) == [k \in DOMAIN table \cup {pk} |-> IF k = pk THEN row ELSE table[k]]
\* a table restricted to the rows that are kept
Restrict(table, keep) == [k \in keep |-> table[k]]
NoReturn == [op |-> "none"]

(* ------------------- AttackTechnique.get_sentence_counts --------------- *)
\* The rows of  attacktechnique LEFT OUTER JOIN sentencetechniquemapping
\* LEFT OUTER JOIN sentence:  one row per mapping row of the technique, and one
\* NULL-extended row for a technique that no mapping row references.
JoinRows(t) ==
    LET ms == {m \in DOMAIN stm : stm[m].attack_technique = t}
    IN  IF ms = {}
        THEN {[mapping |-> Null, sentence |-> Null, disposition |-> NoDisposition]}
        ELSE {[mapping |-> m, sentence |-> stm[m].sentence,
               disposition |-> sentences[stm[m].sentence].disposition] : m \in ms}

\* Count('sentences', filter=Q(sentences__disposition=d)): COUNT(sentence.id) over
\* the join rows that pass the filter; a NULL sentence.id is not counted.
CountFiltered(t, d) ==
    Cardinality({r \in JoinRows(t) : r.sentence # Null /\ r.disposition = d})

\* Count('sentences', distinct=True): the sentences, not the join rows
CountAllDistinct(t) == Cardinality({r.sentence : r \in {q \in JoinRows(t) : q.sentence # Null}})

\* Count('sentences')
CountAll(t) == Cardinality({r \in JoinRows(t) : r.sentence # Null})

Annotate(t) ==
    [pk |-> t, attack_id |-> techniques[t].attack_id,
     accepted_sentences |-> CountFiltered(t, "accept"),
     pending_sentences |-> CountFiltered(t, NoDisposition),
     total_sentences |-> CountAll(t)]

\* order_by('-accepted_sentences', 'attack_id')
OrderBefore(a, b) ==
    \/ a.accepted_sentences > b.accepted_sentences
    \/ /\ a.accepted_sentences = b.accepted_sentences
       /\ LexLess(a.attack_id, b.attack_id)

RECURSIVE OrderBy(_)
OrderBy(S) ==
    IF S = {} THEN Empty
    ELSE LET first == CHOOSE a \in S : \A b \in S \ {a} : OrderBefore(a, b)
         IN  <<first>> \o OrderBy(S \ {first})

\* .filter(accepted_sentences__gt=accept_threshold)
PassesThresholdStrict(a, accept_threshold) == a.accepted_sentences > accept_threshold

\* .filter(accepted_sentences__gte=accept_threshold)
PassesThreshold(a, accept_threshold) == a.accepted_sentences >= accept_threshold

get_sentence_counts(accept_threshold) ==
    OrderBy({a \in {Annotate(t) : t \in DOMAIN techniques} :
                 PassesThreshold(a, accept_threshold)})

\* the same query with the mapping's own sentence required to be accepted
get_accepted_mappings_own(threshold) ==
    LET attack_techniques == get_sentence_counts(threshold)
    IN  {m \in DOMAIN stm :
            /\ sentences[stm[m].sentence].disposition = "accept"
            /\ \E i \in DOMAIN attack_techniques :
                   attack_techniques[i].pk = stm[m].attack_technique}

\* SentenceTechniqueMapping.get_accepted_mappings:
\* cls.objects.filter(attack_technique__in=attack_techniques)
get_accepted_mappings(threshold) ==
    LET attack_techniques == get_sentence_counts(threshold)
    IN  {m \in DOMAIN stm :
            \E i \in DOMAIN attack_techniques :
                attack_techniques[i].pk = stm[m].attack_technique}

(* ----------------------- the Mapping Ledger actions -------------------- *)
\* SentenceTechniqueMapping.objects.create(report, sentence, attack_technique, confidence)
ProposeSTM(r, s, t, c) ==
    /\ r \in DOMAIN reports /\ s \in DOMAIN sentences
    /\ t \in DOMAIN techniques \cup {Null}
    /\ stm' = Insert(stm, lastpk.stm + 1,
                     [report |-> r, sentence |-> s, attack_technique |-> t, confidence |-> c])
    /\ lastpk' = [lastpk EXCEPT !.stm = @ + 1]
    /\ ret' = NoReturn
    /\ UNCHANGED <<techniques, groups, documents, jobs, reports, indicators, sentences,
                   sgm, rtm, rgm, files, config, hooklog>>

\* a reviewer sets Sentence.disposition
SetDisposition(s, d) ==
    /\ s \in DOMAIN sentences
    /\ d \in DISPOSITION_CHOICES
    /\ sentences[s].disposition # d
    /\ sentences' = [sentences EXCEPT ![s].disposition = d]
    /\ ret' = NoReturn
    /\ UNCHANGED <<techniques, groups, documents, jobs, reports, indicators,
                   stm, sgm, rtm, rgm, lastpk, files, config, hooklog>>

\* constance: config.ML_ACCEPT_THRESHOLD is changed
SetThreshold(n) ==
    /\ n \in Thresholds
    /\ config.ML_ACCEPT_THRESHOLD # n
    /\ config' = [config EXCEPT !.ML_ACCEPT_THRESHOLD = n]
    /\ ret' = NoReturn
    /\ UNCHANGED <<techniques, groups, store, files, hooklog>>

(* --------------------------- the query calls --------------------------- *)
CallSentenceCounts(t) ==
    /\ t \in Thresholds
    /\ ret' = [op |-> "get_sentence_counts", threshold |-> t, error |-> "none",
               value |-> get_sentence_counts(t)]
    /\ UNCHANGED <<techniques, groups, store, files, config, hooklog>>

CallSentenceTechniqueAccepted ==
    /\ ret' = [op |-> "SentenceTechniqueMapping.get_accepted_mappings",
               threshold |-> config.ML_ACCEPT_THRESHOLD, error |-> "none",
               value |-> get_accepted_mappings(config.ML_ACCEPT_THRESHOLD)]
    /\ UNCHANGED <<techniques, groups, store, files, config, hooklog>>

\* the class attributes that models.py defines on the two taxonomy classes
ClassAttrs ==
    [AttackTechnique |-> {"get_sentence_counts", "__str__"},
     AttackGroup |-> {"__str__"}]

\* getattr(cls, name): an attribute the class does not define raises AttributeError
Raises(cls, name) == IF name \in ClassAttrs[cls] THEN "none" ELSE "AttributeError"

\* SentenceGroupMapping.get_accepted_mappings: AttackGroup.get_sentence_counts(...)
CallSentenceGroupAccepted ==
    /\ Raises("AttackGroup", "get_sentence_counts") # "none"
    /\ ret' = [op |-> "SentenceGroupMapping.get_accepted_mappings",
               threshold |-> config.ML_ACCEPT_THRESHOLD,
               error |-> Raises("AttackGroup", "get_sentence_counts"), value |-> {}]
    /\ UNCHANGED <<techniques, groups, store, files, config, hooklog>>

\* ReportTechniqueMapping.get_accepted_mappings: AttackTechnique.get_report_counts(...)
CallReportTechniqueAccepted ==
    /\ Raises("AttackTechnique", "get_report_counts") # "none"
    /\ ret' = [op |-> "ReportTechniqueMapping.get_accepted_mappings",
               threshold |-> config.ML_ACCEPT_THRESHOLD,
               error |-> Raises("AttackTechnique", "get_report_counts"), value |-> {}]
    /\ UNCHANGED <<techniques, groups, store, files, config, hooklog>>

\* ReportGroupMapping.get_accepted_mappings: AttackGroup.get_report_counts(...)
CallReportGroupAccepted ==
    /\ Raises("AttackGroup", "get_report_counts") # "none"
    /\ ret' = [op |-> "ReportGroupMapping.get_accepted_mappings",
               threshold |-> config.ML_ACCEPT_THRESHOLD,
               error |-> Raises("AttackGroup", "get_report_counts"), value |-> {}]
    /\ UNCHANGED <<techniques, groups, store, files, config, hooklog>>

(* ------------------- the aggregation specification --------------------- *)
Registry ==
    /\ techniques = [t \in {1, 2} |-> [attack_id |-> IF t = 1 THEN AttackIdT2 ELSE AttackIdT10]]
    /\ groups = [g \in {1} |-> [attack_id |-> AttackIdG1]]

NoRows == [k \in {} |-> Null]

\* one ingested Document with its Report and NumSentences undecided Sentences
Init ==
    /\ Registry
    /\ documents = [d \in {1} |-> [docfile |-> "a.pdf"]]
    /\ jobs = [j \in {1} |-> [document |-> 1, status |-> "queued", message |-> ""]]
    /\ reports = [r \in {1} |-> [document |-> 1]]
    /\ indicators = NoRows
    /\ sentences = [s \in 1..NumSentences |->
                       [report |-> 1, document |-> 1, disposition |-> NoDisposition]]
    /\ stm = NoRows /\ sgm = NoRows /\ rtm = NoRows /\ rgm = NoRows
    /\ lastpk = [documents |-> 1, jobs |-> 1, reports |-> 1, indicators |-> 0,
                 sentences |-> NumSentences, stm |-> 0, sgm |-> 0, rtm |-> 0, rgm |-> 0]
    /\ files = {"a.pdf"}
    /\ config = [ML_ACCEPT_THRESHOLD |-> 1]
    /\ ret = NoReturn
    /\ hooklog = Empty

Propose == \E r \in DOMAIN reports, s \in DOMAIN sentences,
              t \in DOMAIN techniques \cup {Null}, c \in ScorerConfidences :
               lastpk.stm < MaxMappings /\ ProposeSTM(r, s, t, c)
Review == \E s \in DOMAIN sentences, d \in DISPOSITION_CHOICES : SetDisposition(s, d)
Configure == \E n \in Thresholds : SetThreshold(n)
SentenceCounts == \E t \in Thresholds : CallSentenceCounts(t)

Next ==
    \/ Propose
    \/ Review
    \/ Configure
    \/ SentenceCounts
    \/ CallSentenceTechniqueAccepted

Spec == Init /\ [][Next]_vars

(* ------------------ SentenceTechniqueMapping.from_mapping -------------- *)
\* AttackTechnique.objects.get(attack_id=...): the rows with that attack_id
TechniquesByAttackId(a) == {t \in DOMAIN techniques : techniques[t].attack_id = a}

\* Returns the new, unsaved SentenceTechniqueMapping, or raises
\* AttackTechnique.DoesNotExist when no technique has the attack_id.
from_mapping(mapping_input, mapping) ==
    LET found == TechniquesByAttackId(mapping.attack_technique)
    IN  IF found = {}
        THEN [error |-> "DoesNotExist"]
        ELSE [error |-> "none",
              value |-> [report |-> sentences[mapping_input].report,
                         sentence |-> mapping_input,
                         attack_technique |-> CHOOSE t \in found : TRUE,
                         confidence |-> mapping.confidence]]

\* from_mapping followed by m.save(): the mapping is written to the ledger at once
CallFromMappingSaving(s, a, c) ==
    LET r == from_mapping(s, [attack_technique |-> a, confidence |-> c])
    IN  /\ s \in DOMAIN sentences
        /\ ret' = [op |-> "from_mapping", sentence |-> s, attack_id |-> a,
                   confidence |-> c, result |-> r]
        /\ IF r.error = "none" /\ lastpk.stm < MaxPromoted
           THEN /\ stm' = Insert(stm, lastpk.stm + 1, r.value)
                /\ lastpk' = [lastpk EXCEPT !.stm = @ + 1]
           ELSE UNCHANGED <<stm, lastpk>>
        /\ UNCHANGED <<techniques, groups, documents, jobs, reports, indicators,
                       sentences, sgm, rtm, rgm, files, config, hooklog>>

CallFromMapping(s, a, c) ==
    /\ s \in DOMAIN sentences
    /\ ret' = [op |-> "from_mapping", sentence |-> s, attack_id |-> a, confidence |-> c,
               result |-> from_mapping(s, [attack_technique |-> a, confidence |-> c])]
    /\ UNCHANGED <<techniques, groups, store, files, config, hooklog>>

\* the caller saves the mapping that from_mapping returned
SaveMapping ==
    /\ ret.op = "from_mapping"
    /\ ret.result.error = "none"
    /\ lastpk.stm < MaxPromoted
    /\ stm' = Insert(stm, lastpk.stm + 1, ret.result.value)
    /\ lastpk' = [lastpk EXCEPT !.stm = @ + 1]
    /\ ret' = NoReturn
    /\ UNCHANGED <<techniques, groups, documents, jobs, reports, indicators, sentences,
                   sgm, rtm, rgm, files, config, hooklog>>

\* SentenceGroupMapping.objects.create(report, sentence, attack_group, confidence)
ProposeSGM(r, s, g, c) ==
    /\ r \in DOMAIN reports /\ s \in DOMAIN sentences
    /\ g \in DOMAIN groups \cup {Null}
    /\ sgm' = Insert(sgm, lastpk.sgm + 1,
                     [report |-> r, sentence |-> s, attack_group |-> g, confidence |-> c])
    /\ lastpk' = [lastpk EXCEPT !.sgm = @ + 1]
    /\ ret' = NoReturn
    /\ UNCHANGED <<techniques, groups, documents, jobs, reports, indicators, sentences,
                   stm, rtm, rgm, files, config, hooklog>>

(* ---------------------- the ledger specification ----------------------- *)
\* a Report of Document 1 and a Report created on its own, one Sentence in each
InitLedger ==
    /\ Registry
    /\ documents = [d \in {1} |-> [docfile |-> "a.pdf"]]
    /\ jobs = [j \in {1} |-> [document |-> 1, status |-> "queued", message |-> ""]]
    /\ reports = [r \in {1, 2} |-> [document |-> IF r = 1 THEN 1 ELSE Null]]
    /\ indicators = NoRows
    /\ sentences = [s \in {1, 2} |->
                       [report |-> s, document |-> IF s = 1 THEN 1 ELSE Null,
                        disposition |-> IF s = 1 THEN "accept" ELSE NoDisposition]]
    /\ stm = NoRows /\ sgm = NoRows /\ rtm = NoRows /\ rgm = NoRows
    /\ lastpk = [documents |-> 1, jobs |-> 1, reports |-> 2, indicators |-> 0,
                 sentences |-> 2, stm |-> 0, sgm |-> 0, rtm |-> 0, rgm |-> 0]
    /\ files = {"a.pdf"}
    /\ config = [ML_ACCEPT_THRESHOLD |-> 1]
    /\ ret = NoReturn
    /\ hooklog = Empty

Promote == \E s \in DOMAIN sentences, a \in AttackIds, c \in ReviewConfidences :
               CallFromMapping(s, a, c)
ProposeGroup == \E r \in DOMAIN reports, s \in DOMAIN sentences,
                   g \in DOMAIN groups \cup {Null}, c \in ScorerConfidences :
                    lastpk.sgm < MaxGroupMappings /\ ProposeSGM(r, s, g, c)

NextLedger ==
    \/ Promote
    \/ SaveMapping
    \/ ProposeGroup
    \/ CallSentenceGroupAccepted
    \/ CallReportTechniqueAccepted
    \/ CallReportGroupAccepted

SpecLedger == InitLedger /\ [][NextLedger]_vars

(* ------------------------- the Evidence Store -------------------------- *)
\* os.remove(path): raises FileNotFoundError when the path does not exist
os_remove(fs, path) ==
    IF path \in fs THEN [files |-> fs \ {path}, error |-> "none"]
    ELSE [files |-> fs, error |-> "FileNotFoundError"]

\* os.path.isfile(path)
isfile(fs, path) == path \in fs

\* _delete_file without the isfile test
_delete_file_unchecked(fs, path) == os_remove(fs, path)

\* _delete_file(path): removes the file only when the path is an existing file
_delete_file(fs, path) ==
    IF isfile(fs, path) THEN os_remove(fs, path) ELSE [files |-> fs, error |-> "none"]

\* the hook without its  if instance.docfile  guard
delete_file_post_delete_unguarded(instance, fs) ==
    [files |-> _delete_file(fs, instance.docfile).files, attempts |-> <<instance.docfile>>]

\* delete_file_post_delete(sender, instance): an empty docfile is falsy and skips the
\* removal; attempts are the paths _delete_file was called with
delete_file_post_delete(instance, fs) ==
    IF instance.docfile # NoFile
    THEN [files |-> _delete_file(fs, instance.docfile).files,
          attempts |-> <<instance.docfile>>]
    ELSE [files |-> fs, attempts |-> Empty]

\* DocumentProcessingJob.create_from_file(f): the Document is saved, which stores the
\* file under an available name when f has a name, then the queued job is saved.
create_from_file(path) ==
    /\ path \in (Paths \ files) \cup {NoFile}
    /\ documents' = Insert(documents, lastpk.documents + 1, [docfile |-> path])
    /\ files' = IF path = NoFile THEN files ELSE files \cup {path}
    /\ jobs' = Insert(jobs, lastpk.jobs + 1,
                      [document |-> lastpk.documents + 1, status |-> "queued", message |-> ""])
    /\ lastpk' = [lastpk EXCEPT !.documents = @ + 1, !.jobs = @ + 1]
    /\ ret' = NoReturn
    /\ UNCHANGED <<techniques, groups, reports, indicators, sentences,
                   stm, sgm, rtm, rgm, config, hooklog>>

\* Report.objects.create(document=d): the document may be NULL
CreateReport(d) ==
    /\ d \in DOMAIN documents \cup {Null}
    /\ reports' = Insert(reports, lastpk.reports + 1, [document |-> d])
    /\ lastpk' = [lastpk EXCEPT !.reports = @ + 1]
    /\ ret' = NoReturn
    /\ UNCHANGED <<techniques, groups, documents, jobs, indicators, sentences,
                   stm, sgm, rtm, rgm, files, config, hooklog>>

\* Indicator.objects.create(report=r)
CreateIndicator(r) ==
    /\ r \in DOMAIN reports
    /\ indicators' = Insert(indicators, lastpk.indicators + 1, [report |-> r])
    /\ lastpk' = [lastpk EXCEPT !.indicators = @ + 1]
    /\ ret' = NoReturn
    /\ UNCHANGED <<techniques, groups, documents, jobs, reports, sentences,
                   stm, sgm, rtm, rgm, files, config, hooklog>>

\* Sentence.objects.create(report=r, document=d): disposition defaults to None
CreateSentence(r, d) ==
    /\ r \in DOMAIN reports
    /\ d \in DOMAIN documents \cup {Null}
    /\ sentences' = Insert(sentences, lastpk.sentences + 1,
                           [report |-> r, document |-> d, disposition |-> NoDisposition])
    /\ lastpk' = [lastpk EXCEPT !.sentences = @ + 1]
    /\ ret' = NoReturn
    /\ UNCHANGED <<techniques, groups, documents, jobs, reports, indicators,
                   stm, sgm, rtm, rgm, files, config, hooklog>>

\* ReportTechniqueMapping.objects.create(report, attack_technique, confidence)
ProposeRTM(r, t, c) ==
    /\ r \in DOMAIN reports /\ t \in DOMAIN techniques
    /\ rtm' = Insert(rtm, lastpk.rtm + 1,
                     [report |-> r, attack_technique |-> t, confidence |-> c])
    /\ lastpk' = [lastpk EXCEPT !.rtm = @ + 1]
    /\ ret' = NoReturn
    /\ UNCHANGED <<techniques, groups, documents, jobs, reports, indicators, sentences,
                   stm, sgm, rgm, files, config, hooklog>>

\* ReportGroupMapping.objects.create(report, attack_group, confidence)
ProposeRGM(r, g, c) ==
    /\ r \in DOMAIN reports /\ g \in DOMAIN groups
    /\ rgm' = Insert(rgm, lastpk.rgm + 1,
                     [report |-> r, attack_group |-> g, confidence |-> c])
    /\ lastpk' = [lastpk EXCEPT !.rgm = @ + 1]
    /\ ret' = NoReturn
    /\ UNCHANGED <<techniques, groups, documents, jobs, reports, indicators, sentences,
                   stm, sgm, rtm, files, config, hooklog>>

(* ---- the on_delete=CASCADE closure of Document d (the deletion collector) ---- *)
\* DocumentProcessingJob.document kept on delete: no job row is collected
CascadeJobsNone(d) == {j \in DOMAIN jobs : FALSE}

\* DocumentProcessingJob.document, on_delete=CASCADE
CascadeJobs(d) == {j \in DOMAIN jobs : jobs[j].document = d}

\* Report.document, on_delete=CASCADE
CascadeReports(d) == {r \in DOMAIN reports : reports[r].document = d}

\* only Sentence.report cascades
CascadeSentencesByReport(d) ==
    {s \in DOMAIN sentences : sentences[s].report \in CascadeReports(d)}

\* Sentence.document and Sentence.report, on_delete=CASCADE
CascadeSentences(d) ==
    {s \in DOMAIN sentences : \/ sentences[s].document = d
                              \/ sentences[s].report \in CascadeReports(d)}

\* Indicator.report, on_delete=CASCADE
CascadeIndicators(d) == {i \in DOMAIN indicators : indicators[i].report \in CascadeReports(d)}

\* the sentence-level tables: report and sentence, on_delete=CASCADE
CascadeSentenceMappings(table, d) ==
    {m \in DOMAIN table : \/ table[m].report \in CascadeReports(d)
                          \/ table[m].sentence \in CascadeSentences(d)}

\* the report-level tables: report, on_delete=CASCADE
CascadeReportMappings(table, d) ==
    {m \in DOMAIN table : table[m].report \in CascadeReports(d)}

\* the rows that reference Document d directly
Referencing(d, js, rs, ss) ==
    {<<"job", j>> : j \in {k \in DOMAIN js : js[k].document = d}}
        \cup {<<"report", r>> : r \in {k \in DOMAIN rs : rs[k].document = d}}
        \cup {<<"sentence", s>> : s \in {k \in DOMAIN ss : ss[k].document = d}}

\* Document.delete(): the collected rows are deleted, the Document row is deleted, and
\* post_delete then runs delete_file_post_delete on the deleted instance.
DeleteDocument(d) ==
    /\ d \in DOMAIN documents
    /\ jobs' = Restrict(jobs, DOMAIN jobs \ CascadeJobs(d))
    /\ reports' = Restrict(reports, DOMAIN reports \ CascadeReports(d))
    /\ sentences' = Restrict(sentences, DOMAIN sentences \ CascadeSentences(d))
    /\ indicators' = Restrict(indicators, DOMAIN indicators \ CascadeIndicators(d))
    /\ stm' = Restrict(stm, DOMAIN stm \ CascadeSentenceMappings(stm, d))
    /\ sgm' = Restrict(sgm, DOMAIN sgm \ CascadeSentenceMappings(sgm, d))
    /\ rtm' = Restrict(rtm, DOMAIN rtm \ CascadeReportMappings(rtm, d))
    /\ rgm' = Restrict(rgm, DOMAIN rgm \ CascadeReportMappings(rgm, d))
    /\ documents' = Restrict(documents, DOMAIN documents \ {d})
    /\ LET hook == delete_file_post_delete(documents[d], files)
       IN  /\ files' = hook.files
           /\ hooklog' = hooklog \o
                 [i \in DOMAIN hook.attempts |->
                     [document |-> d, path |-> hook.attempts[i],
                      referencing |-> Referencing(d, jobs', reports', sentences')]]
    /\ ret' = NoReturn
    /\ UNCHANGED <<techniques, groups, lastpk, config>>

\* a direct call of _delete_file(path)
CallDeleteFile(path) ==
    /\ path \in Paths
    /\ files' = _delete_file(files, path).files
    /\ ret' = [op |-> "_delete_file", path |-> path, before |-> files,
               error |-> _delete_file(files, path).error]
    /\ UNCHANGED <<techniques, groups, store, config, hooklog>>

(* --------------------- the lifecycle specification --------------------- *)
InitLifecycle ==
    /\ Registry
    /\ documents = NoRows /\ jobs = NoRows /\ reports = NoRows
    /\ indicators = NoRows /\ sentences = NoRows
    /\ stm = NoRows /\ sgm = NoRows /\ rtm = NoRows /\ rgm = NoRows
    /\ lastpk = [documents |-> 0, jobs |-> 0, reports |-> 0, indicators |-> 0,
                 sentences |-> 0, stm |-> 0, sgm |-> 0, rtm |-> 0, rgm |-> 0]
    /\ files = {}
    /\ config = [ML_ACCEPT_THRESHOLD |-> 1]
    /\ ret = NoReturn
    /\ hooklog = Empty

MappingsCreated == lastpk.stm + lastpk.sgm + lastpk.rtm + lastpk.rgm
RowRoom == lastpk.reports + lastpk.sentences + lastpk.indicators + MappingsCreated < MaxRows

Submit == \E path \in Paths \cup {NoFile} :
              lastpk.documents < MaxDocuments /\ create_from_file(path)
NewReport == \E d \in DOMAIN documents \cup {Null} : RowRoom /\ CreateReport(d)
NewIndicator == \E r \in DOMAIN reports : RowRoom /\ CreateIndicator(r)
NewSentence == \E r \in DOMAIN reports, d \in DOMAIN documents \cup {Null} :
                  RowRoom /\ CreateSentence(r, d)
NewSentenceTechnique == \E r \in DOMAIN reports, s \in DOMAIN sentences :
                            RowRoom /\ ProposeSTM(r, s, 1, 50)
NewSentenceGroup == \E r \in DOMAIN reports, s \in DOMAIN sentences :
                        RowRoom /\ ProposeSGM(r, s, 1, 50)
NewReportTechnique == \E r \in DOMAIN reports : RowRoom /\ ProposeRTM(r, 1, 50)
NewReportGroup == \E r \in DOMAIN reports : RowRoom /\ ProposeRGM(r, 1, 50)
Destroy == \E d \in DOMAIN documents : DeleteDocument(d)
Cleanup == \E path \in Paths : CallDeleteFile(path)

NextLifecycle ==
    \/ Submit
    \/ NewReport
    \/ NewIndicator
    \/ NewSentence
    \/ NewSentenceTechnique
    \/ NewSentenceGroup
    \/ NewReportTechnique
    \/ NewReportGroup
    \/ Destroy

SpecLifecycle == InitLifecycle /\ [][NextLifecycle]_vars

(* ---------------------- the cleanup specification ---------------------- *)
\* Documents are submitted and destroyed while _delete_file is also called directly
NextCleanup ==
    \/ Submit
    \/ Destroy
    \/ Cleanup

SpecCleanup == InitLifecycle /\ [][NextCleanup]_vars

(* ------------------ properties of the aggregation queries -------------- *)
\* the mapping rows that associate an accepted / pending / rejected sentence with t
Associations(t, d) ==
    {m \in DOMAIN stm : stm[m].attack_technique = t
                        /\ sentences[stm[m].sentence].disposition = d}
AllAssociations(t) == {m \in DOMAIN stm : stm[m].attack_technique = t}
\* the distinct sentences with disposition d that some mapping row associates with t
AssociatedSentences(t, d) ==
    {s \in DOMAIN sentences : sentences[s].disposition = d
                              /\ \E m \in DOMAIN stm : stm[m].attack_technique = t
                                                       /\ stm[m].sentence = s}
PkSet(q) == {q[i].pk : i \in DOMAIN q}
IsCountsReturn == ret.op = "get_sentence_counts"
IsAcceptedReturn == ret.op = "SentenceTechniqueMapping.get_accepted_mappings"

C2_SentenceCountsExact ==
    IsCountsReturn =>
        LET q == ret.value
        IN  /\ PkSet(q) = {t \in DOMAIN techniques :
                              Cardinality(Associations(t, "accept")) >= ret.threshold}
            /\ Len(q) = Cardinality(PkSet(q))
            /\ \A i \in DOMAIN q :
                  /\ q[i].accepted_sentences = Cardinality(Associations(q[i].pk, "accept"))
                  /\ q[i].pending_sentences = Cardinality(Associations(q[i].pk, NoDisposition))
                  /\ q[i].total_sentences = Cardinality(AllAssociations(q[i].pk))
                  /\ q[i].attack_id = techniques[q[i].pk].attack_id
            /\ \A i, j \in DOMAIN q :
                  i < j => \/ q[i].accepted_sentences > q[j].accepted_sentences
                           \/ /\ q[i].accepted_sentences = q[j].accepted_sentences
                              /\ LexLess(q[i].attack_id, q[j].attack_id)
            /\ \A u \in Thresholds :
                  u >= ret.threshold => PkSet(get_sentence_counts(u)) \subseteq PkSet(q)
            /\ (ret.threshold = 0 =>
                  \A t \in DOMAIN techniques : AllAssociations(t) # {} => t \in PkSet(q))

\* two techniques tie on a positive accepted count that equals the threshold, and a
\* larger threshold returns strictly fewer techniques
C2_Witness ==
    /\ IsCountsReturn
    /\ Len(ret.value) = 2
    /\ ret.threshold > 0
    /\ ret.value[1].accepted_sentences = ret.threshold
    /\ ret.value[2].accepted_sentences = ret.threshold
    /\ get_sentence_counts(ret.threshold + 1) = Empty

\* C3: for every technique returned by one call of get_sentence_counts,
\* accepted + pending + rejected-but-present = total, the rejected-but-present being
\* the associations of the technique with a rejected sentence; reviewers change
\* dispositions between any two calls.
C3_CountsPartition ==
    IsCountsReturn =>
        \A i \in DOMAIN ret.value :
            ret.value[i].accepted_sentences + ret.value[i].pending_sentences
                + Cardinality(Associations(ret.value[i].pk, "reject"))
              = ret.value[i].total_sentences

\* a returned technique with an accepted and a rejected sentence
C3_Witness ==
    /\ IsCountsReturn
    /\ \E i \in DOMAIN ret.value :
          /\ ret.value[i].accepted_sentences = 1
          /\ ret.value[i].pending_sentences = 0
          /\ Associations(ret.value[i].pk, "reject") # {}
          /\ ret.value[i].total_sentences = MaxMappings

\* C4: the accepted, pending and total counts of a returned technique count each
\* distinct sentence-to-technique association once, however many mapping rows the
\* ledger holds for the pair.
C4_CountsDistinctSentences ==
    IsCountsReturn =>
        \A i \in DOMAIN ret.value :
            /\ ret.value[i].accepted_sentences
                  = Cardinality(AssociatedSentences(ret.value[i].pk, "accept"))
            /\ ret.value[i].pending_sentences
                  = Cardinality(AssociatedSentences(ret.value[i].pk, NoDisposition))
            /\ ret.value[i].total_sentences
                  = Cardinality({stm[m].sentence : m \in AllAssociations(ret.value[i].pk)})

(* --------------------- properties of the ledger calls ------------------ *)
IsFromMappingStep == ret' # ret /\ ret'.op = "from_mapping"

\* C8 as claimed: with an unknown attack_id the call fails and the ledger is unchanged;
\* with a known one the ledger afterwards contains a new sentence-level mapping with
\* the given sentence, that sentence's report, the target and the confidence.
C8_PromoteCreatesRow ==
    [][IsFromMappingStep =>
         IF TechniquesByAttackId(ret'.attack_id) = {}
         THEN ret'.result.error = "DoesNotExist" /\ stm' = stm
         ELSE \E m \in DOMAIN stm' \ DOMAIN stm :
                 /\ stm'[m].sentence = ret'.sentence
                 /\ stm'[m].report = sentences[ret'.sentence].report
                 /\ techniques[stm'[m].attack_technique].attack_id = ret'.attack_id
                 /\ stm'[m].confidence = ret'.confidence]_vars

\* C8 amended: with an unknown attack_id the call fails (AttackTechnique.DoesNotExist);
\* with a known one it returns a new mapping with the given sentence, that sentence's
\* report, the target and the confidence; in both cases the call leaves the ledger
\* unchanged: the returned mapping is not saved.
C8_PromoteReturnsUnsaved ==
    [][IsFromMappingStep =>
         /\ stm' = stm /\ lastpk' = lastpk
         /\ IF TechniquesByAttackId(ret'.attack_id) = {}
            THEN ret'.result.error = "DoesNotExist"
            ELSE /\ ret'.result.error = "none"
                 /\ ret'.result.value.sentence = ret'.sentence
                 /\ ret'.result.value.report = sentences[ret'.sentence].report
                 /\ techniques[ret'.result.value.attack_technique].attack_id = ret'.attack_id
                 /\ ret'.result.value.confidence = ret'.confidence]_vars

\* a mapping was returned for the sentence of the second report while the ledger
\* already holds a saved mapping
C8_Witness ==
    /\ ret.op = "from_mapping"
    /\ ret.result.error = "none"
    /\ ret.sentence = 2
    /\ ret.result.value.report = 2
    /\ stm # NoRows
    /\ \A m \in DOMAIN stm : stm[m] # ret.result.value

\* the sentence-group mappings whose group has enough accepted sentences
GroupAssociations(g) ==
    {m \in DOMAIN sgm : sgm[m].attack_group = g
                        /\ sentences[sgm[m].sentence].disposition = "accept"}

\* C9: the acceptance queries of the other three mapping kinds do not fail, and the
\* sentence-group query returns exactly the sentence-group mappings whose group has an
\* accepted count >= the configured threshold.
C9_AllKindsAnswer ==
    /\ ret.op \in {"SentenceGroupMapping.get_accepted_mappings",
                   "ReportTechniqueMapping.get_accepted_mappings",
                   "ReportGroupMapping.get_accepted_mappings"} => ret.error = "none"
    /\ ret.op = "SentenceGroupMapping.get_accepted_mappings" =>
          ret.value = {m \in DOMAIN sgm :
                          /\ sgm[m].attack_group # Null
                          /\ Cardinality(GroupAssociations(sgm[m].attack_group))
                                 >= ret.threshold}

(* ----------------------- properties of the lifecycle ------------------- *)
Destroyed == DOMAIN documents \ DOMAIN documents'

\* no mapping without its subject or report, no sentence without its report or its
\* document, no indicator or report without its parent
NoOrphans ==
    /\ \A r \in DOMAIN reports :
          reports[r].document # Null => reports[r].document \in DOMAIN documents
    /\ \A s \in DOMAIN sentences :
          /\ sentences[s].report \in DOMAIN reports
          /\ sentences[s].document # Null => sentences[s].document \in DOMAIN documents
    /\ \A i \in DOMAIN indicators : indicators[i].report \in DOMAIN reports
    /\ \A m \in DOMAIN stm : stm[m].report \in DOMAIN reports
                             /\ stm[m].sentence \in DOMAIN sentences
    /\ \A m \in DOMAIN sgm : sgm[m].report \in DOMAIN reports
                             /\ sgm[m].sentence \in DOMAIN sentences
    /\ \A m \in DOMAIN rtm : rtm[m].report \in DOMAIN reports
    /\ \A m \in DOMAIN rgm : rgm[m].report \in DOMAIN reports

\* the rows of a table that the destruction of d must remove
ReportGone(r, d) == reports[r].document = d
SentenceGone(s, d) == sentences[s].document = d \/ ReportGone(sentences[s].report, d)

\* a table after the step: the rows that had to go are gone, every other row is as before
Kept(before, after, gone) ==
    /\ DOMAIN after = DOMAIN before \ gone
    /\ \A k \in DOMAIN after : after[k] = before[k]

\* C5: after a Document d is destroyed no Report of d, no Sentence of d or of such a
\* Report, no Indicator of such a Report and no mapping whose sentence or report was
\* removed remains; every other record and the taxonomy are unchanged, and no orphan
\* exists afterwards.
C5_CascadeComplete ==
    [][\A d \in Destroyed :
          /\ Kept(documents, documents', {d})
          /\ Kept(reports, reports', {r \in DOMAIN reports : ReportGone(r, d)})
          /\ Kept(sentences, sentences', {s \in DOMAIN sentences : SentenceGone(s, d)})
          /\ Kept(indicators, indicators',
                  {i \in DOMAIN indicators : ReportGone(indicators[i].report, d)})
          /\ Kept(stm, stm', {m \in DOMAIN stm : \/ ReportGone(stm[m].report, d)
                                                 \/ SentenceGone(stm[m].sentence, d)})
          /\ Kept(sgm, sgm', {m \in DOMAIN sgm : \/ ReportGone(sgm[m].report, d)
                                                 \/ SentenceGone(sgm[m].sentence, d)})
          /\ Kept(rtm, rtm', {m \in DOMAIN rtm : ReportGone(rtm[m].report, d)})
          /\ Kept(rgm, rgm', {m \in DOMAIN rgm : ReportGone(rgm[m].report, d)})
          /\ techniques' = techniques /\ groups' = groups
          /\ NoOrphans']_vars

\* a Document was destroyed and took a Sentence and its mapping with it; the Report
\* of that Sentence and the other Document are still there
C5_Witness ==
    /\ Cardinality(DOMAIN documents) < lastpk.documents
    /\ documents # NoRows
    /\ MappingsCreated > 0
    /\ stm = NoRows /\ sgm = NoRows /\ rtm = NoRows /\ rgm = NoRows
    /\ Cardinality(DOMAIN sentences) < lastpk.sentences
    /\ reports # NoRows

C7_JobsOnlyGrow ==
    [][\A j \in DOMAIN jobs : j \in DOMAIN jobs' /\ jobs'[j] = jobs[j]]_vars

\* C7 amended: a job record is deleted exactly when its Document is destroyed
\* (document is on_delete=CASCADE), also while it is queued; the job records of every
\* other Document stay in the store with status and message unchanged.
C7_JobsFollowDocument ==
    [][\A j \in DOMAIN jobs :
          IF jobs[j].document \in DOMAIN documents'
          THEN j \in DOMAIN jobs' /\ jobs'[j] = jobs[j]
          ELSE j \notin DOMAIN jobs']_vars

\* one Document was destroyed while its job was queued; the other job is still there
C7_Witness ==
    /\ lastpk.jobs = MaxDocuments
    /\ Cardinality(DOMAIN jobs) = 1
    /\ \A j \in DOMAIN jobs : jobs[j].status = "queued"

\* C10: a cleanup call raises no error, removes the file at the path if there is one
\* and no other file; on a path that is no existing file it changes nothing, so a
\* second call for the same path leaves the file store as the first call left it.
C10_CleanupIdempotent ==
    ret.op = "_delete_file" =>
        /\ ret.error = "none"
        /\ files = ret.before \ {ret.path}
        /\ (ret.path \notin ret.before => files = ret.before)
        /\ _delete_file(files, ret.path) = [files |-> files, error |-> "none"]

\* a cleanup call for the path of a Document whose file is already removed
C10_Witness ==
    /\ ret.op = "_delete_file"
    /\ ret.path \notin ret.before
    /\ ret.before # {}
    /\ \E d \in DOMAIN documents : documents[d].docfile = ret.path

====
